---------------------------- MODULE Spec2Model ----------------------------
(***************************************************************************)
(* go-dotignore: gitignore-style pattern lists compiled into an ordered    *)
(* list of ignorePattern values (buildIgnorePatterns, BuildRegex) and      *)
(* queried with PatternMatcher.Matches (matchesInternal, matchPattern).    *)
(*                                                                         *)
(* Strings are sequences of one-character strings, so that every byte      *)
(* operation of the Go code (TrimSpace, ReplaceAll, Split, Clean, the      *)
(* character loop of BuildRegex, the regular expression it emits) is       *)
(* computed and not assumed.  path/filepath is modelled for a build whose  *)
(* filepath.Separator is '/'.                                              *)
(***************************************************************************)
EXTENDS Integers, Sequences, FiniteSets, TLC

(***************************************************************************)
(* package strings                                                         *)
(***************************************************************************)

\* unicode.IsSpace restricted to the characters of the model
Whitespace == {" ", "\t"}

HasPrefix(s, prefix) ==
    /\ Len(prefix) <= Len(s)
    /\ SubSeq(s, 1, Len(prefix)) = prefix

HasSuffix(s, suffix) ==
    /\ Len(suffix) <= Len(s)
    /\ SubSeq(s, Len(s) - Len(suffix) + 1, Len(s)) = suffix

TrimSuffix(s, suffix) ==
    IF HasSuffix(s, suffix) THEN SubSeq(s, 1, Len(s) - Len(suffix)) ELSE s

Contains(s, substr) ==
    \E i \in 0..(Len(s) - Len(substr)) : SubSeq(s, i + 1, i + Len(substr)) = substr

ContainsAny(s, chars) == \E i \in 1..Len(s) : s[i] \in chars

\* strings.ReplaceAll(s, old, new) for one-character old and new
ReplaceAll(s, old, new) == [i \in 1..Len(s) |-> IF s[i] = old THEN new ELSE s[i]]

TrimSpace(s) ==
    LET keep == {i \in 1..Len(s) : s[i] \notin Whitespace}
    IN  IF keep = {} THEN <<>>
        ELSE SubSeq(s, CHOOSE i \in keep : \A j \in keep : i <= j,
                       CHOOSE i \in keep : \A j \in keep : j <= i)

RECURSIVE Split(_, _)
Split(s, sep) ==
    LET at == {i \in 1..Len(s) : s[i] = sep}
    IN  IF at = {} THEN <<s>>
        ELSE LET i == CHOOSE k \in at : \A j \in at : k <= j
             IN  <<SubSeq(s, 1, i - 1)>> \o Split(SubSeq(s, i + 1, Len(s)), sep)

RECURSIVE Join(_, _)
Join(elems, sep) ==
    IF elems = <<>> THEN <<>>
    ELSE IF Len(elems) = 1 THEN elems[1]
    ELSE elems[1] \o <<sep>> \o Join(Tail(elems), sep)

(***************************************************************************)
(* path/filepath, Separator = '/'                                          *)
(***************************************************************************)

\* the element loop of filepath.Clean: out is the stack of kept elements
RECURSIVE CleanElems(_, _, _)
CleanElems(elems, out, rooted) ==
    IF elems = <<>> THEN out
    ELSE LET e == Head(elems)
             rest == Tail(elems)
         IN  IF e = <<>> \/ e = <<".">> THEN CleanElems(rest, out, rooted)
             ELSE IF e = <<".", ".">>
             THEN IF out # <<>> /\ out[Len(out)] # <<".", ".">>
                  THEN CleanElems(rest, SubSeq(out, 1, Len(out) - 1), rooted)
                  ELSE IF ~rooted
                  THEN CleanElems(rest, Append(out, e), rooted)
                  ELSE CleanElems(rest, out, rooted)
             ELSE CleanElems(rest, Append(out, e), rooted)

Clean(path) ==
    IF path = <<>> THEN <<".">>
    ELSE LET rooted == path[1] = "/"
             out == Join(CleanElems(Split(path, "/"), <<>>, rooted), "/")
         IN  IF rooted THEN <<"/">> \o out
             ELSE IF out = <<>> THEN <<".">>
             ELSE out

(***************************************************************************)
(* package regexp: the part of the RE2 syntax that BuildRegex emits for    *)
(* patterns without '(', ')', '|', '{' and '}'.  A compiled expression is  *)
(* a sequence of items: an assertion (bol, eol) or a one-character atom    *)
(* (lit, any, class) with its repetition q ("1", "?", "*", "+").           *)
(***************************************************************************)

RepeatOps == {"*", "+", "?"}

Item(kind, ch) == [kind |-> kind, ch |-> ch, q |-> "1", negated |-> FALSE, set |-> {}]

CompileError == [err |-> TRUE, prog |-> <<>>]

\* the characters of the model in the order of their code points
CharOrder ==
    <<"\t", " ", "!", "#", "$", "(", ")", "*", "+", "-", ".", "/", "?",
      "A", "B", "C", "D", "E", "F", "G", "H", "I", "J", "K", "L", "M", "N", "O", "P", "Q",
      "R", "S", "T", "U", "V", "W", "X", "Y", "Z", "[", "\\", "]", "^", "_",
      "a", "b", "c", "d", "e", "f", "g", "h", "i", "j", "k", "l", "m", "n", "o", "p", "q",
      "r", "s", "t", "u", "v", "w", "x", "y", "z", "{", "|", "}">>

Ord(c) == CHOOSE n \in 1..Len(CharOrder) : CharOrder[n] = c

\* the characters from lo to hi
CharRange(lo, hi) == {CharOrder[n] : n \in Ord(lo)..Ord(hi)}

\* one character of a class at re[j]: a backslash escape or the character itself
ClassChar(re, j) ==
    IF j > Len(re) THEN [err |-> TRUE, ch |-> "", next |-> j]   \* missing closing ]
    ELSE IF re[j] = "\\"
    THEN IF j + 1 > Len(re) THEN [err |-> TRUE, ch |-> "", next |-> j]
         ELSE [err |-> FALSE, ch |-> re[j + 1], next |-> j + 2]
    ELSE [err |-> FALSE, ch |-> re[j], next |-> j + 1]

\* the members of a bracket expression from re[j] up to its closing ']'
RECURSIVE ParseClass(_, _, _, _)
ParseClass(re, j, first, set) ==
    IF j <= Len(re) /\ re[j] = "]" /\ ~first
    THEN [err |-> FALSE, next |-> j + 1, set |-> set]
    ELSE LET lo == ClassChar(re, j)
         IN  IF lo.err THEN [err |-> TRUE, next |-> j, set |-> set]
             ELSE IF lo.next + 1 <= Len(re) /\ re[lo.next] = "-" /\ re[lo.next + 1] # "]"
             THEN LET hi == ClassChar(re, lo.next + 1)
                  IN  IF hi.err \/ Ord(hi.ch) < Ord(lo.ch)
                      THEN [err |-> TRUE, next |-> j, set |-> set]   \* invalid range
                      ELSE ParseClass(re, hi.next, FALSE, set \cup CharRange(lo.ch, hi.ch))
             ELSE ParseClass(re, lo.next, FALSE, set \cup {lo.ch})

RECURSIVE ParseRegex(_, _, _)
RECURSIVE ParseRepeat(_, _, _, _)

\* the repetition operator that may follow the atom just read
ParseRepeat(re, j, acc, atom) ==
    IF j <= Len(re) /\ re[j] \in RepeatOps
    THEN LET rep == [atom EXCEPT !.q = re[j]]
         IN  IF j + 1 <= Len(re) /\ re[j + 1] = "?"
             THEN \* non-greedy form: the same set of matches
                  IF j + 2 <= Len(re) /\ re[j + 2] \in RepeatOps
                  THEN CompileError
                  ELSE ParseRegex(re, j + 2, Append(acc, rep))
             ELSE IF j + 1 <= Len(re) /\ re[j + 1] \in RepeatOps
             THEN CompileError   \* invalid nested repetition operator
             ELSE ParseRegex(re, j + 1, Append(acc, rep))
    ELSE ParseRegex(re, j, Append(acc, atom))

ParseRegex(re, i, acc) ==
    IF i > Len(re) THEN [err |-> FALSE, prog |-> acc]
    ELSE LET c == re[i]
         IN  CASE c = "^" -> ParseRepeat(re, i + 1, acc, Item("bol", ""))
               [] c = "$" -> ParseRepeat(re, i + 1, acc, Item("eol", ""))
               [] c = "." -> ParseRepeat(re, i + 1, acc, Item("any", ""))
               [] c = "\\" ->
                    IF i + 1 <= Len(re)
                    THEN ParseRepeat(re, i + 2, acc, Item("lit", re[i + 1]))
                    ELSE CompileError   \* trailing backslash at end of expression
               [] c = "(" ->
                    \* the one group BuildRegex writes, "(.*)?": any text
                    IF i + 4 <= Len(re) /\ SubSeq(re, i, i + 4) = <<"(", ".", "*", ")", "?">>
                    THEN ParseRegex(re, i + 5, Append(acc, [Item("any", "") EXCEPT !.q = "*"]))
                    ELSE CompileError
               [] c = "[" ->
                    LET negated == i + 1 <= Len(re) /\ re[i + 1] = "^"
                        class == ParseClass(re, IF negated THEN i + 2 ELSE i + 1, TRUE, {})
                    IN  IF class.err THEN CompileError
                        ELSE ParseRepeat(re, class.next, acc,
                                         [kind |-> "class", ch |-> "", q |-> "1",
                                          negated |-> negated, set |-> class.set])
               [] c \in RepeatOps -> CompileError   \* missing argument to repetition operator
               [] OTHER -> ParseRepeat(re, i + 1, acc, Item("lit", c))

\* regexp.Compile
RegexpCompile(re) == ParseRegex(re, 1, <<>>)

Accepts(item, c) ==
    CASE item.kind = "lit" -> c = item.ch
      [] item.kind = "any" -> c # "\n"
      [] item.kind = "class" -> (c \in item.set) # item.negated
      [] OTHER -> FALSE

\* whether prog[k..] matches s from position j on (the end of the match is free)
RECURSIVE MatchFrom(_, _, _, _)
MatchFrom(prog, k, s, j) ==
    IF k > Len(prog) THEN TRUE
    ELSE LET it == prog[k]
             one == j <= Len(s) /\ Accepts(it, s[j])
         IN  CASE it.kind = "bol" -> (it.q \in {"*", "?"} \/ j = 1) /\ MatchFrom(prog, k + 1, s, j)
               [] it.kind = "eol" -> (it.q \in {"*", "?"} \/ j = Len(s) + 1) /\ MatchFrom(prog, k + 1, s, j)
               [] it.q = "1" -> one /\ MatchFrom(prog, k + 1, s, j + 1)
               [] it.q = "?" -> MatchFrom(prog, k + 1, s, j) \/ (one /\ MatchFrom(prog, k + 1, s, j + 1))
               [] it.q = "*" -> MatchFrom(prog, k + 1, s, j) \/ (one /\ MatchFrom(prog, k, s, j + 1))
               [] OTHER -> one /\ (MatchFrom(prog, k + 1, s, j + 1) \/ MatchFrom(prog, k, s, j + 1))

\* (*Regexp).MatchString: an unanchored search
MatchString(prog, s) == \E j \in 1..(Len(s) + 1) : MatchFrom(prog, 1, s, j)

(***************************************************************************)
(* internal.BuildRegex                                                     *)
(***************************************************************************)

\* BuildRegexFrom with ".*" written for '*' and "." for '?'
RECURSIVE BuildRegexFromCrossing(_, _)
BuildRegexFromCrossing(pattern, i) ==
    IF i > Len(pattern) THEN <<>>
    ELSE LET char == pattern[i]
         IN  CASE char = "*" ->
                    IF i + 1 <= Len(pattern) /\ pattern[i + 1] = "*"
                    THEN <<"(", ".", "*", ")", "?">> \o
                         BuildRegexFromCrossing(pattern,
                             IF i + 2 <= Len(pattern) /\ pattern[i + 2] = "/" THEN i + 3 ELSE i + 2)
                    ELSE <<".", "*">> \o BuildRegexFromCrossing(pattern, i + 1)
               [] char = "?" -> <<".">> \o BuildRegexFromCrossing(pattern, i + 1)
               [] char = "." -> <<"\\", ".">> \o BuildRegexFromCrossing(pattern, i + 1)
               [] char = "$" -> <<"\\", "$">> \o BuildRegexFromCrossing(pattern, i + 1)
               [] char = "\\" ->
                    IF i + 1 <= Len(pattern)
                    THEN <<pattern[i + 1]>> \o BuildRegexFromCrossing(pattern, i + 2)
                    ELSE <<"\\", "\\">>
               [] OTHER -> <<char>> \o BuildRegexFromCrossing(pattern, i + 1)

\* the character loop: the text written to regexBuilder from pattern[i] on
RECURSIVE BuildRegexFrom(_, _)
BuildRegexFrom(pattern, i) ==
    IF i > Len(pattern) THEN <<>>
    ELSE LET char == pattern[i]
         IN  CASE char = "*" ->
                    IF i + 1 <= Len(pattern) /\ pattern[i + 1] = "*"
                    THEN <<"(", ".", "*", ")", "?">> \o
                         BuildRegexFrom(pattern,
                             IF i + 2 <= Len(pattern) /\ pattern[i + 2] = "/" THEN i + 3 ELSE i + 2)
                    ELSE <<"[", "^", "/", "]", "*">> \o BuildRegexFrom(pattern, i + 1)
               [] char = "?" -> <<"[", "^", "/", "]">> \o BuildRegexFrom(pattern, i + 1)
               [] char = "." -> <<"\\", ".">> \o BuildRegexFrom(pattern, i + 1)
               [] char = "$" -> <<"\\", "$">> \o BuildRegexFrom(pattern, i + 1)
               [] char = "\\" ->
                    IF i + 1 <= Len(pattern)
                    THEN <<pattern[i + 1]>> \o BuildRegexFrom(pattern, i + 2)
                    ELSE <<"\\", "\\">>
               [] OTHER -> <<char>> \o BuildRegexFrom(pattern, i + 1)

\* the expression handed to regexp.Compile
RegexText(pattern) == <<"^">> \o BuildRegexFrom(pattern, 1) \o <<"$">>

BuildRegex(pattern) == RegexpCompile(RegexText(pattern))

(***************************************************************************)
(* package dotignore                                                       *)
(***************************************************************************)

NoError == [kind |-> "nil"]

Nil == [ptr |-> "nil"]

\* compileLine with the line trimmed for the blank and comment test only
compileLineUntrimmed(line, i) ==
    LET trimmed == TrimSpace(line)
    IN  IF trimmed = <<>> \/ HasPrefix(trimmed, <<"#">>)
        THEN [kind |-> "skip"]
        ELSE LET isNegation == HasPrefix(line, <<"!">>)
                 unnegated == IF isNegation THEN Tail(line) ELSE line
                 slashed == ReplaceAll(unnegated, "\\", "/")
                 isDirectory == HasSuffix(slashed, <<"/">>)
                 pattern == IF isDirectory THEN TrimSuffix(slashed, <<"/">>) ELSE slashed
                 regex == BuildRegex(pattern)
             IN  IF isNegation /\ Len(line) = 1
                 THEN [kind |-> "error",
                       err |-> [kind |-> "single '!' is not allowed", line |-> i]]
                 ELSE IF pattern = <<>>
                 THEN [kind |-> "error",
                       err |-> [kind |-> "pattern cannot be empty", line |-> i]]
                 ELSE IF regex.err
                 THEN [kind |-> "error",
                       err |-> [kind |-> "failed to build regex",
                                pattern |-> pattern, line |-> i]]
                 ELSE [kind |-> "pattern",
                       entry |-> [pattern |-> pattern,
                                  regexPattern |-> regex.prog,
                                  isDirectory |-> isDirectory,
                                  negate |-> isNegation,
                                  hasWildcard |-> ContainsAny(pattern, {"*", "?"})]]

\* the body of the loop of buildIgnorePatterns for patterns[i]: the entry
\* appended, a skipped line, or the error returned
compileLine(line, i) ==
    LET trimmed == TrimSpace(line)
    IN  IF trimmed = <<>> \/ HasPrefix(trimmed, <<"#">>)
        THEN [kind |-> "skip"]
        ELSE LET isNegation == HasPrefix(trimmed, <<"!">>)
             IN  IF isNegation /\ Len(trimmed) = 1
                 THEN [kind |-> "error",
                       err |-> [kind |-> "single '!' is not allowed", line |-> i]]
                 ELSE LET unnegated == IF isNegation THEN Tail(trimmed) ELSE trimmed
                          slashed == ReplaceAll(unnegated, "\\", "/")
                          isDirectory == HasSuffix(slashed, <<"/">>)
                          pattern == IF isDirectory THEN TrimSuffix(slashed, <<"/">>) ELSE slashed
                      IN  IF pattern = <<>>
                          THEN [kind |-> "error",
                                err |-> [kind |-> "pattern cannot be empty", line |-> i]]
                          ELSE LET regex == BuildRegex(pattern)
                               IN  IF regex.err
                                   THEN [kind |-> "error",
                                         err |-> [kind |-> "failed to build regex",
                                                  pattern |-> pattern, line |-> i]]
                                   ELSE [kind |-> "pattern",
                                         entry |-> [pattern |-> pattern,
                                                    regexPattern |-> regex.prog,
                                                    isDirectory |-> isDirectory,
                                                    negate |-> isNegation,
                                                    hasWildcard |-> ContainsAny(pattern, {"*", "?"})]]

\* buildFrom with each new entry put in front of the list
RECURSIVE buildFromPrepending(_, _, _)
buildFromPrepending(patterns, i, ignorePatterns) ==
    IF i > Len(patterns) THEN [ignorePatterns |-> ignorePatterns, err |-> NoError]
    ELSE LET c == compileLine(patterns[i], i)
         IN  CASE c.kind = "skip" -> buildFromPrepending(patterns, i + 1, ignorePatterns)
               [] c.kind = "error" -> [ignorePatterns |-> <<>>, err |-> c.err]
               [] OTHER -> buildFromPrepending(patterns, i + 1, <<c.entry>> \o ignorePatterns)

\* buildFrom with the lines numbered without the blank and comment lines
RECURSIVE buildFromCountingPatterns(_, _, _)
buildFromCountingPatterns(patterns, i, ignorePatterns) ==
    IF i > Len(patterns) THEN [ignorePatterns |-> ignorePatterns, err |-> NoError]
    ELSE LET c == compileLine(patterns[i], Len(ignorePatterns) + 1)
         IN  CASE c.kind = "skip" -> buildFromCountingPatterns(patterns, i + 1, ignorePatterns)
               [] c.kind = "error" -> [ignorePatterns |-> <<>>, err |-> c.err]
               [] OTHER -> buildFromCountingPatterns(patterns, i + 1,
                                                     Append(ignorePatterns, c.entry))

\* buildFrom with a line that cannot be compiled skipped like a comment
RECURSIVE buildFromSkippingInvalid(_, _, _)
buildFromSkippingInvalid(patterns, i, ignorePatterns) ==
    IF i > Len(patterns) THEN [ignorePatterns |-> ignorePatterns, err |-> NoError]
    ELSE LET c == compileLine(patterns[i], i)
         IN  IF c.kind = "pattern"
             THEN buildFromSkippingInvalid(patterns, i + 1, Append(ignorePatterns, c.entry))
             ELSE buildFromSkippingInvalid(patterns, i + 1, ignorePatterns)

RECURSIVE buildFrom(_, _, _)
buildFrom(patterns, i, ignorePatterns) ==
    IF i > Len(patterns) THEN [ignorePatterns |-> ignorePatterns, err |-> NoError]
    ELSE LET c == compileLine(patterns[i], i)
         IN  CASE c.kind = "skip" -> buildFrom(patterns, i + 1, ignorePatterns)
               [] c.kind = "error" -> [ignorePatterns |-> <<>>, err |-> c.err]
               [] OTHER -> buildFrom(patterns, i + 1, Append(ignorePatterns, c.entry))

buildIgnorePatterns(patterns) == buildFrom(patterns, 1, <<>>)

\* NewPatternMatcher returning a matcher beside the error
NewPatternMatcherResultPartial(patterns) ==
    LET built == buildIgnorePatterns(patterns)
    IN  [matcher |-> [ignorePatterns |-> built.ignorePatterns],
         err |-> IF built.err # NoError
                 THEN [kind |-> "failed to build ignore patterns", cause |-> built.err]
                 ELSE NoError]

NewPatternMatcherResult(patterns) ==
    LET built == buildIgnorePatterns(patterns)
    IN  IF built.err # NoError
        THEN [matcher |-> Nil,
              err |-> [kind |-> "failed to build ignore patterns", cause |-> built.err]]
        ELSE [matcher |-> [ignorePatterns |-> built.ignorePatterns], err |-> NoError]

\* the two subpath loops of matchPattern for a pattern with wildcards
matchSubPaths(file, pattern) ==
    LET parts == Split(file, "/")
    IN  \/ \E i \in 1..Len(parts) :
              MatchString(pattern.regexPattern, Join(SubSeq(parts, i, Len(parts)), "/"))
        \/ \E i \in 2..Len(parts) :
              MatchString(pattern.regexPattern,
                          Join(SubSeq(parts, 1, i - 1), "/") \o <<"/">> \o
                          Join(SubSeq(parts, i, Len(parts)), "/"))

matchPattern(file, pattern) ==
    \/ MatchString(pattern.regexPattern, file)
    \/ /\ pattern.isDirectory
       /\ \/ file = pattern.pattern \o <<"/">>
          \/ file = pattern.pattern
          \/ HasPrefix(file, pattern.pattern \o <<"/">>)
    \/ /\ pattern.hasWildcard
       /\ matchSubPaths(file, pattern)
    \/ /\ Contains(pattern.pattern, <<"/">>)
       /\ \/ file = pattern.pattern
          \/ Contains(file, pattern.pattern)
          \/ HasSuffix(file, <<"/">> \o pattern.pattern)
          \/ HasSuffix(file, pattern.pattern)
    \/ /\ ~Contains(pattern.pattern, <<"/">>)
       /\ LET parts == Split(file, "/")
          IN  \E k \in 1..Len(parts) : MatchString(pattern.regexPattern, parts[k])

\* matchesFrom with the verdict of the first matching pattern kept
RECURSIVE matchesFromFirstWins(_, _, _, _)
matchesFromFirstWins(ignorePatterns, i, file, matched) ==
    IF i > Len(ignorePatterns) THEN matched
    ELSE IF matchPattern(file, ignorePatterns[i])
    THEN ~ignorePatterns[i].negate
    ELSE matchesFromFirstWins(ignorePatterns, i + 1, file, matched)

\* matchesFrom with the verdict reset by a pattern that does not match
RECURSIVE matchesFromResetting(_, _, _, _)
matchesFromResetting(ignorePatterns, i, file, matched) ==
    IF i > Len(ignorePatterns) THEN matched
    ELSE matchesFromResetting(ignorePatterns, i + 1, file,
                              /\ matchPattern(file, ignorePatterns[i])
                              /\ ~ignorePatterns[i].negate)

\* matchesFrom with a pattern that matches flipping the verdict
RECURSIVE matchesFromToggling(_, _, _, _)
matchesFromToggling(ignorePatterns, i, file, matched) ==
    IF i > Len(ignorePatterns) THEN matched
    ELSE matchesFromToggling(ignorePatterns, i + 1, file,
                             IF matchPattern(file, ignorePatterns[i])
                             THEN ~matched
                             ELSE matched)

\* the loop of matchesInternal from ignorePatterns[i] on
RECURSIVE matchesFrom(_, _, _, _)
matchesFrom(ignorePatterns, i, file, matched) ==
    IF i > Len(ignorePatterns) THEN matched
    ELSE matchesFrom(ignorePatterns, i + 1, file,
                     IF matchPattern(file, ignorePatterns[i])
                     THEN ~ignorePatterns[i].negate
                     ELSE matched)

matchesInternal(p, file) ==
    [result |-> matchesFrom(p.ignorePatterns, 1, file, FALSE), err |-> NoError]

\* the path handed to matchesInternal
normalizeFile(file) == ReplaceAll(Clean(file), "\\", "/")

\* Matches handing the path to matchesInternal without filepath.Clean
MatchesResultUncleaned(p, file) ==
    IF file = <<>> \/ file = <<".">> \/ file = <<".", "/">>
    THEN [result |-> FALSE, err |-> NoError]
    ELSE matchesInternal(p, ReplaceAll(file, "\\", "/"))

MatchesResult(p, file) ==
    IF file = <<>> THEN [result |-> FALSE, err |-> NoError]
    ELSE LET cleaned == Clean(file)
         IN  IF cleaned = <<".">> \/ cleaned = <<".", "/">>
             THEN [result |-> FALSE, err |-> NoError]
             ELSE matchesInternal(p, ReplaceAll(cleaned, "\\", "/"))

(***************************************************************************)
(* package dotignore as in dotignore.go: IgnorePattern keeps parentDirs,   *)
(* and matches tests the pattern on the path and then on the directories   *)
(* above it                                                                *)
(***************************************************************************)

\* filepath.Dir: the path up to its last separator, cleaned
Dir(path) ==
    LET at == {i \in 1..Len(path) : path[i] = "/"}
    IN  Clean(IF at = {} THEN <<>>
              ELSE SubSeq(path, 1, CHOOSE i \in at : \A j \in at : j <= i))

\* getEsc of filepath.Match at p[j]: the position after one class character,
\* 0 for ErrBadPattern
GetEsc(p, j) ==
    IF j > Len(p) \/ p[j] \in {"-", "]"} THEN 0
    ELSE LET k == IF p[j] = "\\" THEN j + 1 ELSE j
         IN  IF k >= Len(p) THEN 0 ELSE k + 1

\* the ranges of a class of filepath.Match from p[j] on: the position after the
\* closing ']', 0 for ErrBadPattern
RECURSIVE ClassEnd(_, _, _)
ClassEnd(p, j, nrange) ==
    IF j <= Len(p) /\ p[j] = "]" /\ nrange > 0 THEN j + 1
    ELSE LET lo == GetEsc(p, j)
         IN  IF lo = 0 THEN 0
             ELSE IF p[lo] = "-"
             THEN LET hi == GetEsc(p, lo + 1)
                  IN  IF hi = 0 THEN 0 ELSE ClassEnd(p, hi, nrange + 1)
             ELSE ClassEnd(p, lo, nrange + 1)

\* whether filepath.Match(p, name) returns ErrBadPattern: p[i..] is malformed
RECURSIVE BadPatternFrom(_, _)
BadPatternFrom(p, i) ==
    IF i > Len(p) THEN FALSE
    ELSE CASE p[i] = "\\" -> i + 1 > Len(p) \/ BadPatternFrom(p, i + 2)
           [] p[i] = "[" ->
                LET j == IF i + 1 <= Len(p) /\ p[i + 1] = "^" THEN i + 2 ELSE i + 1
                    end == ClassEnd(p, j, 0)
                IN  end = 0 \/ BadPatternFrom(p, end)
           [] OTHER -> BadPatternFrom(p, i + 1)

ErrBadPattern == [kind |-> "syntax error in pattern"]

\* the run-time panic of a method called on a nil *regexp.Regexp
Panic == [kind |-> "panic", value |-> "nil pointer dereference"]

\* the IgnorePattern appended for a line, or the error of BuildRegex; regex is
\* what BuildRegex returned, a nil *regexp.Regexp where regex.err
legacyEntry(pattern, isNegation, regex) ==
    IF regex.err
    THEN [kind |-> "error", err |-> [kind |-> "error parsing regexp", pattern |-> pattern]]
    ELSE [kind |-> "pattern",
          entry |-> [pattern |-> pattern,
                     regexPattern |-> regex,
                     parentDirs |-> Split(pattern, "/"),
                     Negate |-> isNegation]]

\* the body of the loop of buildIgnorePatterns once the line is normalized
legacyCompileCleaned(pattern, isNegation) ==
    IF isNegation /\ Len(pattern) = 1
    THEN [kind |-> "error", err |-> [kind |-> "invalid pattern: '!'"]]
    ELSE IF isNegation
    THEN legacyEntry(Tail(pattern), TRUE, BuildRegex(Tail(pattern)))
    ELSE legacyEntry(pattern, FALSE, BuildRegex(pattern))

\* the body of the loop of buildIgnorePatterns once the line is trimmed
legacyCompileTrimmed(pattern) ==
    IF pattern = <<>> \/ HasPrefix(pattern, <<"#">>)
    THEN [kind |-> "skip"]
    ELSE legacyCompileCleaned(Clean(pattern), HasPrefix(Clean(pattern), <<"!">>))

\* the body of the loop of buildIgnorePatterns
legacyCompileLine(line) == legacyCompileTrimmed(TrimSpace(line))

RECURSIVE legacyBuildFrom(_, _, _)
RECURSIVE legacyBuildStep(_, _, _, _)

\* the loop of buildIgnorePatterns after the body has given c for patterns[i]
legacyBuildStep(patterns, i, ignorePatterns, c) ==
    CASE c.kind = "skip" -> legacyBuildFrom(patterns, i + 1, ignorePatterns)
      [] c.kind = "error" -> [ignorePatterns |-> <<>>, err |-> c.err]
      [] OTHER -> legacyBuildFrom(patterns, i + 1, Append(ignorePatterns, c.entry))

\* the loop of buildIgnorePatterns from patterns[i] on
legacyBuildFrom(patterns, i, ignorePatterns) ==
    IF i > Len(patterns) THEN [ignorePatterns |-> ignorePatterns, err |-> NoError]
    ELSE legacyBuildStep(patterns, i, ignorePatterns, legacyCompileLine(patterns[i]))

\* what NewPatternMatcher returns for the (ignorePatterns, err) of
\* buildIgnorePatterns
legacyMatcherOf(built) ==
    IF built.err # NoError
    THEN [matcher |-> Nil, err |-> built.err]
    ELSE [matcher |-> [ignorePatterns |-> built.ignorePatterns], err |-> NoError]

LegacyNewPatternMatcherResult(patterns) == legacyMatcherOf(legacyBuildFrom(patterns, 1, <<>>))

\* matchWithRegex: the match, the error returned, or the panic
matchWithRegex(path, ignorePattern) ==
    IF BadPatternFrom(ignorePattern.pattern, 1)
    THEN [matched |-> FALSE, err |-> ErrBadPattern]
    ELSE IF ignorePattern.regexPattern.err
    THEN [matched |-> FALSE, err |-> Panic]
    ELSE [matched |-> MatchString(ignorePattern.regexPattern.prog, path), err |-> NoError]

\* the IgnorePattern built for the leading directories of the path; the error
\* of BuildRegex is assigned to _
subPathIgnorePattern(subPath) == [pattern |-> subPath, regexPattern |-> BuildRegex(subPath)]

\* the test of the directories above the file in the loop of matches: the
\* pattern's own directories against the expression built from as many leading
\* directories of the path
matchParentDirs(parentDirs, pattern) ==
    matchWithRegex(Join(pattern.parentDirs, "/"),
                   subPathIgnorePattern(Join(SubSeq(parentDirs, 1, Len(pattern.parentDirs)), "/")))

\* the outcome of the parent directory test: its error is assigned to _, so
\* only a panic ends the call; a failed BuildRegex leaves a nil regexPattern,
\* with which matchWithRegex returns an error or panics
parentOutcome(above) ==
    IF above.err = Panic
    THEN [matches |-> FALSE, err |-> Panic, discarded |-> TRUE]
    ELSE [matches |-> above.matched, err |-> NoError, discarded |-> above.err # NoError]

\* one iteration of the loop of matches after the direct test: whether the
\* pattern matches, the error or panic that ends the call, and whether an
\* error was discarded
matchOneAfter(direct, parentPath, parentDirs, pattern) ==
    IF direct.err # NoError
    THEN [matches |-> FALSE, err |-> direct.err, discarded |-> FALSE]
    ELSE IF ~direct.matched /\ parentPath # <<".">> /\
            Len(pattern.parentDirs) <= Len(parentDirs)
    THEN parentOutcome(matchParentDirs(parentDirs, pattern))
    ELSE [matches |-> direct.matched, err |-> NoError, discarded |-> FALSE]

\* one iteration of the loop of matches
matchOne(normalizedFile, parentPath, parentDirs, pattern) ==
    matchOneAfter(matchWithRegex(normalizedFile, pattern), parentPath, parentDirs, pattern)

RECURSIVE legacyMatchesFrom(_, _, _, _, _, _, _)
RECURSIVE legacyMatchesStep(_, _, _, _, _, _, _, _)

\* the loop of matches after the iteration for ignorePatterns[i] has given one
legacyMatchesStep(ignorePatterns, i, normalizedFile, parentPath, parentDirs, matched, discarded, one) ==
    IF one.err # NoError
    THEN [result |-> FALSE, err |-> one.err, discarded |-> discarded \/ one.discarded]
    ELSE legacyMatchesFrom(ignorePatterns, i + 1, normalizedFile, parentPath, parentDirs,
                           IF one.matches THEN ~ignorePatterns[i].Negate ELSE matched,
                           discarded \/ one.discarded)

\* the loop of matches from ignorePatterns[i] on
legacyMatchesFrom(ignorePatterns, i, normalizedFile, parentPath, parentDirs, matched, discarded) ==
    IF i > Len(ignorePatterns)
    THEN [result |-> matched, err |-> NoError, discarded |-> discarded]
    ELSE legacyMatchesStep(ignorePatterns, i, normalizedFile, parentPath, parentDirs,
                           matched, discarded,
                           matchOne(normalizedFile, parentPath, parentDirs, ignorePatterns[i]))

\* matches once parentPath is known
matchesUnder(normalizedFile, parentPath, ignorePatterns) ==
    legacyMatchesFrom(ignorePatterns, 1, normalizedFile, parentPath, Split(parentPath, "/"),
                      FALSE, FALSE)

\* matches(file, ignorePatterns); filepath.FromSlash changes nothing where the
\* separator is '/'
matches(file, ignorePatterns) == matchesUnder(file, Dir(file), ignorePatterns)

\* Matches once the file is cleaned
legacyMatchesCleaned(p, file) ==
    IF file = <<".">>
    THEN [result |-> FALSE, err |-> NoError, discarded |-> FALSE]
    ELSE matches(file, p.ignorePatterns)

LegacyMatchesResult(p, file) == legacyMatchesCleaned(p, Clean(file))

(***************************************************************************)
(* Inputs                                                                  *)
(***************************************************************************)

\* the longest pattern list handed to NewPatternMatcher
MaxLines == 2

\* pattern lines
StarTxt == <<"*", ".", "t", "x", "t">>
NotImportantTxt == <<"!", "i", "m", "p", "o", "r", "t", "a", "n", "t", ".", "t", "x", "t">>
BuildDir == <<"b", "u", "i", "l", "d", "/">>
SrcTestDir == <<"s", "r", "c", "/", "t", "e", "s", "t", "/">>
DoubleStar == <<"*", "*">>
EscapedStar == <<"a", "\\", "*", "b">>   \* 'a', backslash, '*', 'b'
InnerDoubleStar == <<"a", "*", "*", "b">>
UnclosedClass == <<"a", "[", "b">>
NotUnclosedClassDir == <<"!", "a", "[", "b", "/">>
Bang == <<"!">>
Slash == <<"/">>
BangSlash == <<"!", "/">>
EmptyLine == <<>>
BlankLine == <<" ", "\t">>   \* a space and a tab
CommentLine == <<" ", "#", " ", "c">>
LeadingSpaceLine ==
    <<" ", " ", "!", "d", "o", "c", "s", "/", "R", "E", "A", "D", "M", "E", ".", "m", "d">>
TrailingSpaceLine ==
    <<"!", "d", "o", "c", "s", "/", "R", "E", "A", "D", "M", "E", ".", "m", "d", " ", " ">>

\* the lines a pattern list is made of
Lines ==
    {StarTxt,
     NotImportantTxt,
     BuildDir,
     SrcTestDir,
     DoubleStar,
     EscapedStar,
     InnerDoubleStar,
     UnclosedClass,
     NotUnclosedClassDir,
     Bang,
     Slash,
     BangSlash,
     EmptyLine,
     BlankLine,
     CommentLine}

\* query paths
ImportantTxt == <<"i", "m", "p", "o", "r", "t", "a", "n", "t", ".", "t", "x", "t">>
TestTxt == <<"t", "e", "s", "t", ".", "t", "x", "t">>
Build == <<"b", "u", "i", "l", "d">>
BuildSlash == <<"b", "u", "i", "l", "d", "/">>
BuildBackslash == <<"b", "u", "i", "l", "d", "\\">>
BuildOut == <<"b", "u", "i", "l", "d", "/", "o", "u", "t", ".", "j", "s">>
BuildSubOut == <<"b", "u", "i", "l", "d", "/", "s", "u", "b", "/", "o", "u", "t", ".", "j", "s">>
BuildxSlash == <<"b", "u", "i", "l", "d", "x", "/">>
OtherJs == <<"o", "t", "h", "e", "r", ".", "j", "s">>
SrcTest == <<"s", "r", "c", "/", "t", "e", "s", "t">>
SrcTestxF == <<"s", "r", "c", "/", "t", "e", "s", "t", "x", "/", "f">>
SrcBackslashTest == <<"s", "r", "c", "\\", "t", "e", "s", "t">>
AStarB == <<"a", "*", "b">>
AxB == <<"a", "x", "b">>
ASlashB == <<"a", "/", "b">>
EmptyPath == <<>>
Dot == <<".">>
DotSlash == <<".", "/">>
DotBackslash == <<".", "\\">>
ADotDot == <<"a", "/", ".", ".">>
DocsReadme == <<"d", "o", "c", "s", "/", "R", "E", "A", "D", "M", "E", ".", "m", "d">>

\* the paths queried
Paths ==
    {ImportantTxt,
     TestTxt,
     Build,
     BuildSlash,
     BuildBackslash,
     BuildOut,
     BuildSubOut,
     BuildxSlash,
     OtherJs,
     SrcTest,
     SrcTestxF,
     SrcBackslashTest,
     AStarB,
     AxB,
     ASlashB,
     EmptyPath,
     Dot,
     DotSlash,
     DotBackslash,
     ADotDot}

PatternLists == UNION {[1..n -> Lines] : n \in 0..MaxLines}

\* the lines and paths of the lists with whitespace around their lines
TrimLines == {LeadingSpaceLine, TrailingSpaceLine, StarTxt, BuildDir, Bang, CommentLine}
TrimLists == UNION {[1..n -> TrimLines] : n \in 0..MaxLines}
TrimPaths == {DocsReadme, TestTxt, BuildOut, OtherJs}

\* glob pattern lines, each the only line of its list
AStarTxt == <<"a", "/", "*", ".", "t", "x", "t">>   \* a/*.txt
AbcQDef == <<"a", "b", "c", "?", "d", "e", "f">>   \* abc?def
StarStarName == <<"*", "*", "/", "n", "a", "m", "e">>   \* **/name
DirStarStar == <<"d", "i", "r", "/", "*", "*">>   \* dir/**
ABTxt == <<"a", "/", "b", ".", "t", "x", "t">>   \* a/b.txt
SrcStarTxt == <<"s", "r", "c", "/", "*", ".", "t", "x", "t">>   \* src/*.txt
StarStarTempDir == <<"*", "*", "/", "t", "e", "m", "p", "/">>   \* **/temp/
StarStarNodeModulesDir ==
    <<"*", "*", "/", "n", "o", "d", "e", "_", "m", "o", "d", "u", "l", "e", "s", "/">>
SrcStarStarTempDir == <<"s", "r", "c", "/", "*", "*", "/", "t", "e", "m", "p", "/">>
AbcDotDef == <<"a", "b", "c", ".", "d", "e", "f">>   \* abc.def
APlusB == <<"a", "+", "b">>   \* a+b
AParenB == <<"a", "(", "b">>   \* a(b

GlobLines ==
    {AStarTxt,
     AbcQDef,
     StarStarName,
     DirStarStar,
     ABTxt,
     SrcStarTxt,
     StarStarTempDir,
     StarStarNodeModulesDir,
     SrcStarStarTempDir,
     AbcDotDef,
     APlusB,
     AParenB}

GlobLists == {<<l>> : l \in GlobLines}

\* the paths queried on them
ABCTxt == <<"a", "/", "b", "/", "c", ".", "t", "x", "t">>   \* a/b/c.txt
AbcSlashDef == <<"a", "b", "c", "/", "d", "e", "f">>   \* abc/def
AFileTxt == <<"a", "/", "f", "i", "l", "e", ".", "t", "x", "t">>   \* a/file.txt
AbcXDef == <<"a", "b", "c", "X", "d", "e", "f">>   \* abcXdef
Name == <<"n", "a", "m", "e">>   \* name
AName == <<"a", "/", "n", "a", "m", "e">>   \* a/name
ABName == <<"a", "/", "b", "/", "n", "a", "m", "e">>   \* a/b/name
XName == <<"x", "n", "a", "m", "e">>   \* xname
AXName == <<"a", "/", "x", "n", "a", "m", "e">>   \* a/xname
DirX == <<"d", "i", "r", "/", "x">>   \* dir/x
DirXY == <<"d", "i", "r", "/", "x", "/", "y">>   \* dir/x/y
XABTxt == <<"x", "/", "a", "/", "b", ".", "t", "x", "t">>   \* x/a/b.txt
LibSrcFTxt == <<"l", "i", "b", "/", "s", "r", "c", "/", "f", ".", "t", "x", "t">>   \* lib/src/f.txt
ABTxtPath == <<"a", "/", "b", ".", "t", "x", "t">>   \* a/b.txt
SrcFTxt == <<"s", "r", "c", "/", "f", ".", "t", "x", "t">>   \* src/f.txt
CacheTempFile ==
    <<"c", "a", "c", "h", "e", "/", "t", "e", "m", "p", "/", "f", "i", "l", "e">>
CacheTemp == <<"c", "a", "c", "h", "e", "/", "t", "e", "m", "p">>   \* cache/temp
ANodeModulesXJs ==
    <<"a", "/", "n", "o", "d", "e", "_", "m", "o", "d", "u", "l", "e", "s", "/", "x", ".", "j", "s">>
ANodeModules == <<"a", "/", "n", "o", "d", "e", "_", "m", "o", "d", "u", "l", "e", "s">>
SrcATempFile ==
    <<"s", "r", "c", "/", "a", "/", "t", "e", "m", "p", "/", "f", "i", "l", "e">>
SrcATemp == <<"s", "r", "c", "/", "a", "/", "t", "e", "m", "p">>   \* src/a/temp
AbcDotDefPath == <<"a", "b", "c", ".", "d", "e", "f">>   \* abc.def
APlusBPath == <<"a", "+", "b">>   \* a+b
Aab == <<"a", "a", "b">>   \* aab

GlobPaths ==
    {ABCTxt,
     AbcSlashDef,
     AFileTxt,
     AbcXDef,
     Name,
     AName,
     ABName,
     XName,
     AXName,
     DirX,
     DirXY,
     XABTxt,
     LibSrcFTxt,
     ABTxtPath,
     SrcFTxt,
     CacheTempFile,
     CacheTemp,
     ANodeModulesXJs,
     ANodeModules,
     SrcATempFile,
     SrcATemp,
     AbcDotDefPath,
     APlusBPath,
     Aab}

\* the lines and paths handed to the matcher of dotignore.go
X == <<"x">>
NotX == <<"!", "x">>
ASlashBLine == <<"a", "/", "b">>
TrailingBackslash == <<"a", "\\">>   \* 'a', backslash
LegacyLines == {X, NotX, ASlashBLine, StarTxt, TrailingBackslash, UnclosedClass, Bang, CommentLine}
LegacyLists == UNION {[1..n -> LegacyLines] : n \in 0..MaxLines}

BracketF == <<"[", "/", "f">>
ParenF == <<"(", "/", "f">>
XF == <<"x", "/", "f">>
ABC == <<"a", "/", "b", "/", "c">>
DTestTxt == <<"d", "/", "t", "e", "s", "t", ".", "t", "x", "t">>
LegacyPaths == {BracketF, ParenF, XF, X, ABC, TestTxt, DTestTxt, Dot}

\* the goroutines that share one PatternMatcher
NumCallers == 2
Callers == 1..NumCallers

\* the calls of Matches the goroutines make altogether
MaxCalls == 3

\* the lines and paths of the matchers that are shared
SharedLines == {StarTxt, NotImportantTxt, Bang}
SharedLists == UNION {[1..n -> SharedLines] : n \in 0..MaxLines}
SharedPaths == {ImportantTxt, OtherJs, Dot}

(***************************************************************************)
(* State                                                                   *)
(***************************************************************************)

VARIABLES
    patterns,   \* the lines handed to NewPatternMatcher
    pc,         \* "new" before the call of NewPatternMatcher, "built" after it
    matcher,    \* the *PatternMatcher returned: Nil or [ignorePatterns]
    err,        \* the error returned by NewPatternMatcher
    file,       \* the argument of the last call of Matches
    result,     \* the boolean it returned
    matchErr,   \* the error it returned
    calls,      \* whether Matches was called on the matcher
    callers     \* the calls of Matches in progress, step by step, one per goroutine

vars == <<patterns, pc, matcher, err, file, result, matchErr, calls, callers>>

\* a goroutine outside Matches that has completed n calls
Idle(n) ==
    [pc |-> "idle", file |-> <<>>, path |-> <<>>, i |-> 1, matched |-> FALSE,
     result |-> FALSE, err |-> NoError, n |-> n]

Init ==
    /\ patterns \in PatternLists
    /\ pc = "new"
    /\ matcher = Nil
    /\ err = NoError
    /\ file = <<>>
    /\ result = FALSE
    /\ matchErr = NoError
    /\ calls = FALSE
    /\ callers = [c \in Callers |-> Idle(0)]

NewPatternMatcher ==
    /\ pc = "new"
    /\ LET r == NewPatternMatcherResult(patterns)
       IN  /\ matcher' = r.matcher
           /\ err' = r.err
    /\ pc' = "built"
    /\ UNCHANGED <<patterns, file, result, matchErr, calls, callers>>

Matches(f) ==
    /\ pc = "built"
    /\ matcher # Nil
    /\ LET r == MatchesResult(matcher, f)
       IN  /\ result' = r.result
           /\ matchErr' = r.err
    /\ file' = f
    /\ calls' = TRUE
    /\ UNCHANGED <<patterns, pc, matcher, err, callers>>

Next ==
    \/ NewPatternMatcher
    \/ \E f \in Paths : Matches(f)

Spec == Init /\ [][Next]_vars

(***************************************************************************)
(* Matches step by step: goroutine c enters Matches, passes the guard, and *)
(* runs the loop of matchesInternal one pattern at a time, reading the     *)
(* shared p.ignorePatterns at every step; the steps of the goroutines      *)
(* interleave freely.                                                      *)
(***************************************************************************)

\* the calls of Matches begun so far by the goroutines 1..c
RECURSIVE Begun(_)
Begun(c) ==
    IF c = 0 THEN 0
    ELSE Begun(c - 1) + callers[c].n + (IF callers[c].pc \in {"called", "loop"} THEN 1 ELSE 0)

\* goroutine c calls p.Matches(f)
Call(c, f) ==
    /\ pc = "built"
    /\ matcher # Nil
    /\ callers[c].pc \in {"idle", "done"}
    /\ Begun(NumCallers) < MaxCalls
    /\ callers' = [callers EXCEPT ![c] = [@ EXCEPT !.pc = "called", !.file = f]]
    /\ UNCHANGED <<patterns, pc, matcher, err, file, result, matchErr, calls>>

\* Guard with matched kept from the call before, as if it were a field of the
\* PatternMatcher and not a local variable of matchesInternal
GuardKeepingMatched(c) ==
    /\ callers[c].pc = "called"
    /\ LET f == callers[c].file
           cleaned == Clean(f)
       IN  callers' = [callers EXCEPT ![c] =
               IF f = <<>> \/ cleaned = <<".">> \/ cleaned = <<".", "/">>
               THEN [@ EXCEPT !.pc = "done", !.result = FALSE, !.err = NoError, !.n = @ + 1]
               ELSE [@ EXCEPT !.pc = "loop", !.path = ReplaceAll(cleaned, "\\", "/"),
                              !.i = 1]]
    /\ UNCHANGED <<patterns, pc, matcher, err, file, result, matchErr, calls>>

\* the guard and the normalization of Matches, and the start of matchesInternal
Guard(c) ==
    /\ callers[c].pc = "called"
    /\ LET f == callers[c].file
           cleaned == Clean(f)
       IN  callers' = [callers EXCEPT ![c] =
               IF f = <<>> \/ cleaned = <<".">> \/ cleaned = <<".", "/">>
               THEN [@ EXCEPT !.pc = "done", !.result = FALSE, !.err = NoError, !.n = @ + 1]
               ELSE [@ EXCEPT !.pc = "loop", !.path = ReplaceAll(cleaned, "\\", "/"),
                              !.i = 1, !.matched = FALSE]]
    /\ UNCHANGED <<patterns, pc, matcher, err, file, result, matchErr, calls>>

\* TestPattern with a pattern that matched moved to the front of the shared
\* list, to be tried first by the next call
TestPatternReordering(c) ==
    /\ callers[c].pc = "loop"
    /\ callers[c].i <= Len(matcher.ignorePatterns)
    /\ LET k == callers[c].i
           pattern == matcher.ignorePatterns[k]
           isMatch == matchPattern(callers[c].path, pattern)
       IN  /\ callers' = [callers EXCEPT ![c] =
                  [@ EXCEPT !.i = @ + 1,
                            !.matched = IF isMatch THEN ~pattern.negate ELSE @]]
           /\ matcher' = IF isMatch
                         THEN [ignorePatterns |->
                                  <<pattern>> \o SubSeq(matcher.ignorePatterns, 1, k - 1) \o
                                  SubSeq(matcher.ignorePatterns, k + 1,
                                         Len(matcher.ignorePatterns))]
                         ELSE matcher
    /\ UNCHANGED <<patterns, pc, err, file, result, matchErr, calls>>

\* one iteration of the loop of matchesInternal
TestPattern(c) ==
    /\ callers[c].pc = "loop"
    /\ callers[c].i <= Len(matcher.ignorePatterns)
    /\ LET pattern == matcher.ignorePatterns[callers[c].i]
       IN  callers' = [callers EXCEPT ![c] =
               [@ EXCEPT !.i = @ + 1,
                         !.matched = IF matchPattern(callers[c].path, pattern)
                                     THEN ~pattern.negate
                                     ELSE @]]
    /\ UNCHANGED <<patterns, pc, matcher, err, file, result, matchErr, calls>>

\* the loop is over: matchesInternal and Matches return
Return(c) ==
    /\ callers[c].pc = "loop"
    /\ callers[c].i > Len(matcher.ignorePatterns)
    /\ callers' = [callers EXCEPT ![c] =
           [@ EXCEPT !.pc = "done", !.result = callers[c].matched, !.err = NoError,
                     !.n = @ + 1]]
    /\ UNCHANGED <<patterns, pc, matcher, err, file, result, matchErr, calls>>

SharedInit ==
    /\ patterns \in SharedLists
    /\ pc = "new"
    /\ matcher = Nil
    /\ err = NoError
    /\ file = <<>>
    /\ result = FALSE
    /\ matchErr = NoError
    /\ calls = FALSE
    /\ callers = [c \in Callers |-> Idle(0)]

SharedNext ==
    \/ NewPatternMatcher
    \/ \E c \in Callers : \E f \in SharedPaths : Call(c, f)
    \/ \E c \in Callers : Guard(c)
    \/ \E c \in Callers : TestPattern(c)
    \/ \E c \in Callers : Return(c)

SharedSpec == SharedInit /\ [][SharedNext]_vars

(***************************************************************************)
(* NewPatternMatcher and Matches on lists whose lines carry whitespace     *)
(***************************************************************************)

TrimInit ==
    /\ patterns \in TrimLists
    /\ pc = "new"
    /\ matcher = Nil
    /\ err = NoError
    /\ file = <<>>
    /\ result = FALSE
    /\ matchErr = NoError
    /\ calls = FALSE
    /\ callers = [c \in Callers |-> Idle(0)]

TrimNext ==
    \/ NewPatternMatcher
    \/ \E f \in TrimPaths : Matches(f)

TrimSpec == TrimInit /\ [][TrimNext]_vars

(***************************************************************************)
(* NewPatternMatcher and Matches on a list of one glob pattern             *)
(***************************************************************************)

GlobInit ==
    /\ patterns \in GlobLists
    /\ pc = "new"
    /\ matcher = Nil
    /\ err = NoError
    /\ file = <<>>
    /\ result = FALSE
    /\ matchErr = NoError
    /\ calls = FALSE
    /\ callers = [c \in Callers |-> Idle(0)]

GlobNext ==
    \/ NewPatternMatcher
    \/ \E f \in GlobPaths : Matches(f)

GlobSpec == GlobInit /\ [][GlobNext]_vars

(***************************************************************************)
(* NewPatternMatcher and Matches of dotignore.go; a call of Matches that   *)
(* panics leaves Panic in matchErr                                         *)
(***************************************************************************)

LegacyInit ==
    /\ patterns \in LegacyLists
    /\ pc = "new"
    /\ matcher = Nil
    /\ err = NoError
    /\ file = <<>>
    /\ result = FALSE
    /\ matchErr = NoError
    /\ calls = FALSE
    /\ callers = [c \in Callers |-> Idle(0)]

LegacyNewPatternMatcher ==
    /\ pc = "new"
    /\ LET r == LegacyNewPatternMatcherResult(patterns)
       IN  /\ matcher' = r.matcher
           /\ err' = r.err
    /\ pc' = "built"
    /\ UNCHANGED <<patterns, file, result, matchErr, calls, callers>>

LegacyMatches(f) ==
    /\ pc = "built"
    /\ matcher # Nil
    /\ LET r == LegacyMatchesResult(matcher, f)
       IN  /\ result' = r.result
           /\ matchErr' = r.err
    /\ file' = f
    /\ calls' = TRUE
    /\ UNCHANGED <<patterns, pc, matcher, err, callers>>

LegacyNext ==
    \/ LegacyNewPatternMatcher
    \/ \E f \in LegacyPaths : LegacyMatches(f)

LegacySpec == LegacyInit /\ [][LegacyNext]_vars

(***************************************************************************)
(* Properties                                                              *)
(***************************************************************************)

\* a call of Matches has returned for a path that the guard of Matches let
\* through to matchesInternal
Consulted == calls /\ file # <<>> /\ Clean(file) # <<".">>

\* the verdict of the last pattern of the list that matches f, FALSE if none does
LastMatchVerdict(ignorePatterns, f) ==
    \E i \in 1..Len(ignorePatterns) :
        /\ matchPattern(f, ignorePatterns[i])
        /\ ~ignorePatterns[i].negate
        /\ \A j \in (i + 1)..Len(ignorePatterns) : ~matchPattern(f, ignorePatterns[j])

\* C1: last match wins.  For every built matcher and every path that does not
\* normalize to ".", Matches returns true exactly when some compiled pattern
\* matches the path and the last such pattern in list order is not negated
\* (false when none matches); ["*.txt", "!important.txt"] gives false for
\* "important.txt" and ["!important.txt", "*.txt"] gives true.
C1_LastMatchWins ==
    Consulted =>
        /\ matchErr = NoError
        /\ result = LastMatchVerdict(matcher.ignorePatterns, normalizeFile(file))
        /\ (patterns = <<StarTxt, NotImportantTxt>> /\ file = ImportantTxt => result = FALSE)
        /\ (patterns = <<NotImportantTxt, StarTxt>> /\ file = ImportantTxt => result = TRUE)

\* both patterns match "important.txt" and the later, un-negated one decides
C1_Witness ==
    /\ Consulted
    /\ patterns = <<NotImportantTxt, StarTxt>>
    /\ file = ImportantTxt
    /\ \A i \in 1..2 : matchPattern(file, matcher.ignorePatterns[i])
    /\ result = TRUE

\* the matcher was built from the one line l and a call of Matches has returned
\* for a path written with '/' only
Alone(l) == calls /\ patterns = <<l>> /\ ~ContainsAny(file, {"\\"})

\* l is "D/" for a literal path D: no negation, comment, whitespace or glob character
LiteralDirLine(l) ==
    /\ Len(l) > 1
    /\ l[Len(l)] = "/"
    /\ ~ContainsAny(l, {"*", "?", "[", "\\", "!", "#"} \cup Whitespace)

\* C2: directory cascade.  A matcher holding only "D/", D a literal path, returns
\* true for D, for "D/" and for every path with "D/" as a prefix; it returns false
\* for a path that has D only as the string prefix of a longer name ("buildx/"
\* for "build/", "src/testx/f" for "src/test/") and for unrelated paths.
C2_DirectoryCascade ==
    \A l \in Lines :
        LiteralDirLine(l) /\ Alone(l) =>
            LET D == SubSeq(l, 1, Len(l) - 1)
            IN  /\ (file = D \/ file = l \/ HasPrefix(file, l) => result = TRUE)
                /\ (HasPrefix(file, D) /\ Len(file) > Len(D) /\ file[Len(D) + 1] # "/"
                        => result = FALSE)
                /\ (~Contains(file, D) => result = FALSE)

\* l is a pattern without separator: no '/', no '\', not negated, not a comment
SeparatorFreeLine(l) ==
    /\ l # <<>>
    /\ ~ContainsAny(l, {"/", "\\", "!", "#"} \cup Whitespace)

\* C3: depth-independent matching.  A matcher holding only a pattern without '/'
\* matches a path exactly when the pattern matches one of the path's whole
\* segments.
C3_SegmentMatch ==
    \A l \in Lines :
        SeparatorFreeLine(l) /\ Alone(l) /\ Consulted =>
            LET segments == Split(normalizeFile(file), "/")
            IN  result = (\E k \in 1..Len(segments) :
                             MatchString(matcher.ignorePatterns[1].regexPattern, segments[k]))

\* C4: escape handling.  A matcher holding only the pattern 'a', backslash, '*',
\* 'b' returns true for the path "a*b" and false for the path "axb".
C4_EscapedStar ==
    Alone(EscapedStar) =>
        /\ (file = AStarB => result = TRUE)
        /\ (file = AxB => result = FALSE)

\* the normalization the specification describes: separators to '/', then cleaning
SpecNormalize(path) == Clean(ReplaceAll(path, "\\", "/"))

\* C5: empty/root path guard.  For every pattern list Matches returns false, with
\* no error, for "", ".", "./" and every other path that normalizes (separators
\* to '/', then cleaning) to ".".
C5_RootGuard ==
    calls /\ SpecNormalize(file) = <<".">> => result = FALSE /\ matchErr = NoError

\* a line that is a pattern (not blank, not a comment) and, after trimming, is
\* exactly "!" or is empty once the leading '!' and the trailing '/' are removed
InvalidLine(l) ==
    LET t == TrimSpace(l)
        u == IF HasPrefix(t, <<"!">>) THEN Tail(t) ELSE t
        v == IF HasSuffix(u, <<"/">>) THEN SubSeq(u, 1, Len(u) - 1) ELSE u
    IN  /\ t # <<>>
        /\ t[1] # "#"
        /\ (t = <<"!">> \/ v = <<>>)

\* C6: invalid pattern lines are hard errors.  Construction returns an error
\* whenever some input line, after trimming, is exactly "!" or is empty once the
\* leading '!' and the trailing '/' are removed, wherever the line stands.
C6_InvalidLineFails ==
    pc = "built" /\ (\E i \in 1..Len(patterns) : InvalidLine(patterns[i])) =>
        err # NoError

\* the invalid line "!/" stands after a valid line and construction failed
C6_Witness ==
    /\ pc = "built"
    /\ patterns = <<StarTxt, BangSlash>>
    /\ err # NoError

\* C7: no partial matcher.  Whenever construction returns an error no
\* PatternMatcher is returned, and whenever one is returned the error is nil.
C7_NoPartialMatcher ==
    pc = "built" =>
        /\ (err # NoError => matcher = Nil)
        /\ (matcher # Nil => err = NoError)

\* the offending line is followed by a valid line: an error and no matcher
C7_Witness ==
    /\ pc = "built"
    /\ patterns = <<Bang, StarTxt>>
    /\ err # NoError
    /\ matcher = Nil

\* the lines that are neither empty after trimming nor comments, in input order
PatternLinesOf(lines) ==
    SelectSeq(lines, LAMBDA l : TrimSpace(l) # <<>> /\ TrimSpace(l)[1] # "#")

\* the text a compiled entry keeps of its line: trimmed, without the leading '!',
\* separators as '/', without the trailing '/'
PatternTextOf(l) ==
    LET t == TrimSpace(l)
        u == IF t[1] = "!" THEN Tail(t) ELSE t
        v == [i \in 1..Len(u) |-> IF u[i] = "\\" THEN "/" ELSE u[i]]
    IN  IF v[Len(v)] = "/" THEN SubSeq(v, 1, Len(v) - 1) ELSE v

\* C8: comment/blank filtering and order preservation.  After a successful
\* construction the compiled list holds exactly one entry for each input line
\* that is neither empty after trimming nor a comment, in the order of the lines.
C8_FilterKeepsOrder ==
    pc = "built" /\ err = NoError =>
        LET kept == PatternLinesOf(patterns)
            compiled == matcher.ignorePatterns
        IN  /\ Len(compiled) = Len(kept)
            /\ \A i \in 1..Len(kept) :
                  /\ compiled[i].pattern = PatternTextOf(kept[i])
                  /\ compiled[i].negate = (TrimSpace(kept[i])[1] = "!")

\* a comment line is dropped and the pattern after it is the one compiled entry
C8_Witness ==
    /\ pc = "built"
    /\ err = NoError
    /\ patterns = <<CommentLine, StarTxt>>
    /\ Len(matcher.ignorePatterns) = 1
    /\ matcher.ignorePatterns[1].pattern = StarTxt

\* the list without its k-th line
WithoutLine(lines, k) == SubSeq(lines, 1, k - 1) \o SubSeq(lines, k + 1, Len(lines))

\* C9: a pattern that does not match a path has no effect on that path.  The
\* pattern list is any list L with a line inserted at position k whose pattern
\* (negated or not) does not match the path: Matches gives for the path what the
\* matcher built from L gives.
C9_NonMatchingHasNoEffect ==
    calls =>
        \A k \in 1..Len(patterns) :
            LET c == compileLine(patterns[k], k)
            IN  c.kind = "pattern" /\ ~matchPattern(normalizeFile(file), c.entry) =>
                    result = MatchesResult(NewPatternMatcherResult(WithoutLine(patterns, k)).matcher,
                                           file).result

\* "!important.txt" does not match "test.txt", which "*.txt" keeps ignored
C9_Witness ==
    /\ Consulted
    /\ patterns = <<StarTxt, NotImportantTxt>>
    /\ file = TestTxt
    /\ ~matchPattern(normalizeFile(file), matcher.ignorePatterns[2])
    /\ result = TRUE

\* C10: separator equivalence of query paths.  For every matcher and every path,
\* Matches returns for the path written with '\' what it returns for the same
\* path written with '/'.
C10_SeparatorEquivalence ==
    calls => result = MatchesResult(matcher, ReplaceAll(file, "\\", "/")).result

\* the whitespace put before and after a line
Pads == {<<>>, <<" ">>, <<"\t", " ">>}

\* the list with whitespace put around its k-th line
Padded(lines, k, pre, post) == [lines EXCEPT ![k] = pre \o @ \o post]

\* two compiled lists with the same texts, negate flags and directory-only flags
SameCompiled(a, b) ==
    /\ Len(a) = Len(b)
    /\ \A i \in 1..Len(a) :
          /\ a[i].pattern = b[i].pattern
          /\ a[i].negate = b[i].negate
          /\ a[i].isDirectory = b[i].isDirectory

\* C11: whitespace insignificance.  Leading or trailing whitespace added to any
\* line of the pattern list changes neither the outcome of construction (the
\* text, negate flag and directory-only flag of every compiled pattern, or the
\* error) nor the result of Matches; "  !docs/README.md" and "!docs/README.md  "
\* both compile to the negated pattern "docs/README.md".
C11_WhitespaceInsignificant ==
    pc = "built" =>
        /\ \A k \in 1..Len(patterns) : \A pre \in Pads : \A post \in Pads :
              LET r == NewPatternMatcherResult(Padded(patterns, k, pre, post))
              IN  /\ r.err = err
                  /\ (err = NoError =>
                         SameCompiled(r.matcher.ignorePatterns, matcher.ignorePatterns))
                  /\ (calls => MatchesResult(r.matcher, file) =
                                   [result |-> result, err |-> matchErr])
        /\ (patterns \in {<<LeadingSpaceLine>>, <<TrailingSpaceLine>>} =>
               /\ err = NoError
               /\ Len(matcher.ignorePatterns) = 1
               /\ matcher.ignorePatterns[1].pattern = DocsReadme
               /\ matcher.ignorePatterns[1].negate
               /\ ~matcher.ignorePatterns[1].isDirectory)

\* the line with leading spaces is compiled to the negated "docs/README.md",
\* and Matches finds "docs/README.md" not ignored
C11_Witness ==
    /\ calls
    /\ patterns = <<StarTxt, LeadingSpaceLine>>
    /\ file = DocsReadme
    /\ matcher.ignorePatterns[2].pattern = DocsReadme
    /\ matcher.ignorePatterns[2].negate
    /\ result = FALSE

\* what goroutine c got from its last call of Matches
Returned(c) == [result |-> callers[c].result, err |-> callers[c].err]

\* C12: determinism.  The outcome of construction and of Matches depends only on
\* the pattern list and the path: at any time a second construction from the same
\* list gives the matcher (or the error) the first one gave, and every call that
\* has returned, whichever calls were made before it, has returned what this
\* second matcher returns for its path.
C12_Deterministic ==
    pc = "built" =>
        LET second == NewPatternMatcherResult(patterns)
        IN  /\ second.err = err
            /\ second.matcher = matcher
            /\ \A c \in Callers :
                  callers[c].pc = "done" => Returned(c) = MatchesResult(second.matcher, callers[c].file)

\* the second call of goroutine 1 has returned, for a path no pattern matches,
\* after the other goroutine got true for "important.txt"
C12_Witness ==
    /\ patterns = <<NotImportantTxt, StarTxt>>
    /\ callers[1].pc = "done"
    /\ callers[1].n = 2
    /\ callers[1].file = OtherJs
    /\ callers[1].result = FALSE
    /\ callers[2].pc = "done"
    /\ callers[2].file = ImportantTxt
    /\ callers[2].result = TRUE

\* one step of a goroutine: the shared list is not written, and a call that
\* returns at this step returns what it returns when no other call is running
ConcurrentStep ==
    /\ (pc = "built" => matcher' = matcher)
    /\ \A c \in Callers :
          callers[c].pc # "done" /\ callers'[c].pc = "done" =>
              [result |-> callers'[c].result, err |-> callers'[c].err] =
                  MatchesResult(matcher, callers'[c].file)

\* C13: concurrent queries are safe without locks.  In every interleaving of the
\* steps of the calls of Matches that several goroutines run on one shared
\* PatternMatcher, each call returns the result it returns when run alone, and no
\* step of any call writes to the shared compiled pattern list.
C13_ConcurrentMatchesSafe == [][ConcurrentStep]_vars

\* both goroutines are inside the loop of matchesInternal at the same time, one
\* past the first pattern and one before it
C13_Witness ==
    /\ patterns = <<NotImportantTxt, StarTxt>>
    /\ callers[1].pc = "loop"
    /\ callers[1].i = 2
    /\ callers[1].path = ImportantTxt
    /\ callers[2].pc = "loop"
    /\ callers[2].i = 1
    /\ callers[2].path = ImportantTxt
    /\ callers[2].n = 1

\* glob matching as the documentation describes it, for a pattern of literal
\* characters, '*' and '?': whether p[i..] matches s[j..] to its end
RECURSIVE GlobMatchFrom(_, _, _, _)
GlobMatchFrom(p, i, s, j) ==
    IF i > Len(p) THEN j > Len(s)
    ELSE CASE p[i] = "*" ->
                \/ GlobMatchFrom(p, i + 1, s, j)
                \/ j <= Len(s) /\ s[j] # "/" /\ GlobMatchFrom(p, i, s, j + 1)
           [] p[i] = "?" -> j <= Len(s) /\ s[j] # "/" /\ GlobMatchFrom(p, i + 1, s, j + 1)
           [] OTHER -> j <= Len(s) /\ s[j] = p[i] /\ GlobMatchFrom(p, i + 1, s, j + 1)

GlobMatch(p, s) == GlobMatchFrom(p, 1, s, 1)

\* the characters that are neither glob tokens nor significant in a regular expression
PlainChars ==
    {"a", "b", "c", "d", "e", "f", "g", "h", "i", "j", "k", "l", "m", "n", "o", "p", "q",
     "r", "s", "t", "u", "v", "w", "x", "y", "z", "_", "/", "."}

\* l is a pattern of plain characters, '*' and '?', without "**", not directory-only
StarQuestionLine(l) ==
    /\ l # <<>>
    /\ \A i \in 1..Len(l) : l[i] \in PlainChars \cup {"*", "?"}
    /\ \A i \in 1..(Len(l) - 1) : ~(l[i] = "*" /\ l[i + 1] = "*")
    /\ l[Len(l)] # "/"

\* C14: '*' and '?' never match the path separator.  For a matcher holding only
\* a pattern of plain characters, '*' and '?': a path that the pattern matches
\* with '*' standing for characters other than '/' and '?' for one character
\* other than '/' is matched, and a path that is matched has a part that the
\* pattern matches in this way, so no '*' or '?' accounts for a '/'.  "a/*.txt"
\* does not match "a/b/c.txt" and matches "a/file.txt"; "abc?def" does not match
\* "abc/def" and matches "abcXdef".
C14_WildcardsStopAtSeparator ==
    \A l \in GlobLines :
        StarQuestionLine(l) /\ Alone(l) =>
            LET path == normalizeFile(file)
            IN  /\ (GlobMatch(l, path) => result = TRUE)
                /\ (result = TRUE =>
                       \E i \in 1..(Len(path) + 1) : \E j \in (i - 1)..Len(path) :
                           GlobMatch(l, SubSeq(path, i, j)))
                /\ (l = AStarTxt /\ file = ABCTxt => result = FALSE)
                /\ (l = AStarTxt /\ file = AFileTxt => result = TRUE)
                /\ (l = AbcQDef /\ file = AbcSlashDef => result = FALSE)
                /\ (l = AbcQDef /\ file = AbcXDef => result = TRUE)

\* "a/*.txt" was tried on "a/b/c.txt", where only a '*' that takes "b/c" would
\* match, and did not match
C14_Witness ==
    /\ Alone(AStarTxt)
    /\ file = ABCTxt
    /\ matcher.ignorePatterns[1].hasWildcard
    /\ result = FALSE

\* C15: "**" matches whole path segments only.  A matcher holding only
\* "**/name" returns true for "name", "a/name" and "a/b/name" and false for a
\* path whose last segment merely ends with name ("xname", "a/xname"); a matcher
\* holding only "dir/**" returns true for every path beneath "dir".
C15_DoubleStarWholeSegments ==
    /\ Alone(StarStarName) =>
          LET segments == Split(normalizeFile(file), "/")
          IN  /\ (file \in {Name, AName, ABName} => result = TRUE)
              /\ (segments[Len(segments)] # Name /\ HasSuffix(segments[Len(segments)], Name)
                     => result = FALSE)
    /\ Alone(DirStarStar) =>
          (HasPrefix(file, <<"d", "i", "r", "/">>) /\ Len(file) > 4 => result = TRUE)

\* C16: anchoring of separator-containing patterns.  A matcher holding only a
\* pattern with a '/' other than a trailing one matches a path only when the
\* pattern matches from the first segment of the path on, up to the end of the
\* path or of one of its segments; a later suffix or an inner part that matches
\* is not enough: "a/b.txt" does not match "x/a/b.txt" and "src/*.txt" does not
\* match "lib/src/f.txt".
C16_SeparatorPatternsAnchored ==
    \A l \in GlobLines :
        StarQuestionLine(l) /\ Contains(l, <<"/">>) /\ Alone(l) =>
            LET path == normalizeFile(file)
            IN  /\ (result = TRUE =>
                       \E j \in 1..Len(path) :
                           /\ j = Len(path) \/ path[j + 1] = "/"
                           /\ GlobMatch(l, SubSeq(path, 1, j)))
                /\ (l = ABTxt /\ file = XABTxt => result = FALSE)
                /\ (l = SrcStarTxt /\ file = LibSrcFTxt => result = FALSE)

\* C17: a directory rule ignores everything beneath it, also with wildcards.  For
\* a matcher holding only a directory-only pattern (trailing '/'): a path is
\* matched whenever one of the directories above it is matched; "**/temp/"
\* matches "cache/temp/file", "**/node_modules/" matches "a/node_modules/x.js"
\* and "src/**/temp/" matches "src/a/temp/file".
C17_DirectoryRuleCoversContents ==
    \A l \in GlobLines :
        l[Len(l)] = "/" /\ Alone(l) =>
            /\ \A j \in 1..(Len(file) - 1) :
                  file[j + 1] = "/" /\ MatchesResult(matcher, SubSeq(file, 1, j)).result
                      => result = TRUE
            /\ (l = StarStarTempDir /\ file = CacheTempFile => result = TRUE)
            /\ (l = StarStarNodeModulesDir /\ file = ANodeModulesXJs => result = TRUE)
            /\ (l = SrcStarStarTempDir /\ file = SrcATempFile => result = TRUE)

\* l is a pattern without glob token, separator, negation or comment mark
TokenFreeLine(l) ==
    /\ l # <<>>
    /\ ~ContainsAny(l, {"*", "?", "[", "\\", "/", "!", "#"} \cup Whitespace)

\* C18: non-glob characters are literal.  A pattern made of characters that are
\* neither glob tokens nor escapes never makes construction fail, and a matcher
\* holding only this pattern matches a path exactly when a segment of the path
\* is the pattern text, whatever the characters mean in a regular expression:
\* "abc.def" matches "abc.def" and not "abcXdef", "a+b" matches "a+b" and not
\* "aab".
C18_PlainCharactersLiteral ==
    \A l \in GlobLines :
        TokenFreeLine(l) /\ patterns = <<l>> /\ pc = "built" =>
            /\ err = NoError
            /\ (calls =>
                   LET segments == Split(normalizeFile(file), "/")
                   IN  /\ result = (\E k \in 1..Len(segments) : segments[k] = l)
                       /\ (l = AbcDotDef /\ file = AbcDotDefPath => result = TRUE)
                       /\ (l = AbcDotDef /\ file = AbcXDef => result = FALSE)
                       /\ (l = APlusB /\ file = APlusBPath => result = TRUE)
                       /\ (l = APlusB /\ file = Aab => result = FALSE))

\* a line that is a pattern, is not invalid, and is rejected by BuildRegex
Rejected(l) ==
    /\ TrimSpace(l) # <<>>
    /\ TrimSpace(l)[1] # "#"
    /\ ~InvalidLine(l)
    /\ BuildRegex(PatternTextOf(l)).err

\* C19: compile failures identify their line.  When the first line of the list
\* that cannot be compiled is a pattern that BuildRegex rejects, such as the
\* unterminated class "a[b", construction fails with an error that carries the
\* text of this pattern and the 1-based position of the line in the list, blank
\* and comment lines before it counted.
C19_CompileFailureNamesLine ==
    pc = "built" =>
        \A k \in 1..Len(patterns) :
            /\ Rejected(patterns[k])
            /\ \A j \in 1..(k - 1) : ~InvalidLine(patterns[j]) /\ ~Rejected(patterns[j])
            => /\ matcher = Nil
               /\ err.kind = "failed to build ignore patterns"
               /\ err.cause = [kind |-> "failed to build regex",
                               pattern |-> PatternTextOf(patterns[k]),
                               line |-> k]
               /\ (patterns[k] \in {UnclosedClass, NotUnclosedClassDir} =>
                      err.cause.pattern = UnclosedClass)

\* "a[b" stands on line 2 after a comment line, and the error names line 2
C19_Witness ==
    /\ pc = "built"
    /\ patterns = <<CommentLine, UnclosedClass>>
    /\ matcher = Nil
    /\ err.cause.kind = "failed to build regex"
    /\ err.cause.pattern = UnclosedClass
    /\ err.cause.line = 2

\* C20: evaluation failures are surfaced.  Whenever a step of the evaluation of
\* a call of Matches fails (the test of a compiled pattern on the path or on the
\* directories above it returns an error) and the call returns, it returns an
\* error with result false; the failure is never taken for "no match" on the way
\* to a boolean verdict.
C20_EvaluationFailuresSurfaced ==
    calls /\ matchErr # Panic =>
        LET r == LegacyMatchesResult(matcher, file)
        IN  r.discarded \/ r.err # NoError => matchErr # NoError /\ result = FALSE

\* C21: Matches is total.  For a successfully built matcher and any path, a call
\* of Matches returns a boolean decision or an error; it never aborts
\* abnormally, as it would by calling at query time a method of an expression
\* whose compilation failed.
C21_MatchesTotal ==
    calls => matchErr # Panic

\* the list without its last line, and what its matcher answers for the file
WithoutLast == SubSeq(patterns, 1, Len(patterns) - 1)
VerdictWithoutLast == MatchesResult(NewPatternMatcherResult(WithoutLast).matcher, file).result

\* the rule compiled from the last line of the list
LastRule == compileLine(patterns[Len(patterns)], Len(patterns))

\* C22: appended rules are monotone.  For a list L, a path p and a pattern
\* appended to the end of L, the verdict of Matches(p) never turns from true to
\* false when the appended pattern is not negated, and never turns from false to
\* true when it is negated.
C22_AppendedRulesMonotone ==
    calls /\ matchErr = NoError /\ Len(patterns) >= 1 /\ LastRule.kind = "pattern" =>
        IF LastRule.entry.negate
        THEN result => VerdictWithoutLast
        ELSE VerdictWithoutLast => result

\* a non-negated pattern appended to a list that ignores the file matches the
\* file too, and a negated one appended to such a list un-ignores the file
C22_Witness ==
    /\ calls
    /\ Len(patterns) = MaxLines
    /\ LastRule.kind = "pattern"
    /\ VerdictWithoutLast
    /\ matchPattern(normalizeFile(file), LastRule.entry)
    /\ result = ~LastRule.entry.negate

\* a path other than the empty path and the paths that clean to "." or "/"
NonRoot(path) == path # <<>> /\ Clean(path) \notin {<<".">>, <<"/">>}

\* C23: a trailing '/' on the query path carries no information.  For every
\* matcher and every non-root path p, Matches(p + "/") returns what Matches(p)
\* returns; hence a directory-only rule such as "build/", when it is the last
\* rule and is not negated, also ignores the path equal to its pattern written
\* without a slash.
C23_TrailingSlashIgnored ==
    calls /\ NonRoot(file) =>
        /\ MatchesResult(matcher, file \o <<"/">>) = [result |-> result, err |-> matchErr]
        /\ /\ Len(patterns) >= 1
           /\ LastRule.kind = "pattern"
           /\ LastRule.entry.isDirectory
           /\ ~LastRule.entry.negate
           /\ normalizeFile(file) = LastRule.entry.pattern
           => result

\* the rule "build/" has answered for the path "build"
C23_Witness ==
    /\ calls
    /\ patterns = <<BuildDir>>
    /\ file = Build
    /\ result
    /\ MatchesResult(matcher, BuildSlash).result

=============================================================================
